---------------------------- MODULE Spec2Model ----------------------------
(***************************************************************************)
(* Model of webtraversallibrary/js/click_element.js: the script that is    *)
(* injected into a page with (selector [, wtlUid]) and clicks the element  *)
(* found by the selector or, failing that, by its wtl-uid.                 *)
(*                                                                         *)
(* The script is one synchronous run; every statement that has an effect   *)
(* observable from outside (a query, a console call, a click) is one       *)
(* action, and pc is the script's position.  Several invocations follow    *)
(* one another on the same live document.                                  *)
(***************************************************************************)
EXTENDS Integers, Sequences, FiniteSets, TLC

\* Bounds of the model.
MaxNodes == 2          \* nodes in the initial document
MaxInvocations == 3    \* invocations of the script in one behaviour

(***************************************************************************)
(* JavaScript values that reach the script as arguments: null or a string. *)
(***************************************************************************)
Null == [t |-> "null", v |-> ""]
Str(s) == [t |-> "str", v |-> s]

\* The element handle null (element !== null is element # NoElement).
NoElement == 0

(***************************************************************************)
(* The document: a sequence of nodes in document order.  A node has an     *)
(* identity n, an id, a class and possibly a wtl-uid attribute.            *)
(***************************************************************************)
NodePool ==
    { [n |-> 1, id |-> "foo", cls |-> "btn", hasUid |-> TRUE,  uid |-> "uid-42"],
      [n |-> 2, id |-> "bar", cls |-> "btn", hasUid |-> TRUE,  uid |-> "uid-42"],
      [n |-> 3, id |-> "baz", cls |-> "lnk", hasUid |-> FALSE, uid |-> ""] }

Injective(s) == \A i, j \in DOMAIN s : s[i] = s[j] => i = j

Documents ==
    { d \in UNION { [1..k -> NodePool] : k \in 0..MaxNodes } : Injective(d) }

\* The primary locators the controller passes, and the second arguments.
Selectors == { "#foo", ".btn", "#missing", "##" }
WtlUids == { Null, Str(""), Str("uid-42"), Str("uid-x") }

ArgumentLists ==
    { <<Str(s)>> : s \in Selectors }
        \cup { <<Str(s), u>> : s \in Selectors, u \in WtlUids }

(***************************************************************************)
(* document.querySelector: the selector string is parsed; a string that is *)
(* no selector makes the engine throw, otherwise the first node in         *)
(* document order that matches is returned, or null.                       *)
(***************************************************************************)
ParseSelector(s) ==
    CASE s = "#foo"     -> [kind |-> "id",    name |-> "foo"]
      [] s = "#missing" -> [kind |-> "id",    name |-> "missing"]
      [] s = ".btn"     -> [kind |-> "class", name |-> "btn"]
      [] OTHER          -> [kind |-> "syntax-error", name |-> ""]

WellFormed(s) == ParseSelector(s).kind # "syntax-error"

Matches(node, s) ==
    LET p == ParseSelector(s)
    IN  \/ p.kind = "id" /\ node.id = p.name
        \/ p.kind = "class" /\ node.cls = p.name

\* The first and the last of a set of indexes into the document, 0 if none.
FirstIndex(hits) ==
    IF hits = {} THEN 0 ELSE CHOOSE i \in hits : \A j \in hits : i <= j

LastIndex(hits) ==
    IF hits = {} THEN 0 ELSE CHOOSE i \in hits : \A j \in hits : i >= j

NodeAt(d, i) == IF i = 0 THEN NoElement ELSE d[i].n

querySelectorLast(d, s) ==
    [threw |-> ~WellFormed(s),
     el |-> NodeAt(d, LastIndex({ i \in DOMAIN d : Matches(d[i], s) }))]

querySelector(d, s) ==
    [threw |-> ~WellFormed(s),
     el |-> NodeAt(d, FirstIndex({ i \in DOMAIN d : Matches(d[i], s) }))]

(***************************************************************************)
(* findElementByWtlUid (dom.js): the first node carrying a wtl-uid         *)
(* attribute whose value equals the argument, or null.                     *)
(***************************************************************************)
findElementByWtlUid(d, u) ==
    NodeAt(d, FirstIndex({ i \in DOMAIN d :
                             d[i].hasUid /\ u.t = "str" /\ d[i].uid = u.v }))

(***************************************************************************)
(* clickElement (dom.js): the click is dispatched on the node; what the    *)
(* page's handlers do with it is theirs: the document is left as it is or  *)
(* the clicked node is removed from it.                                    *)
(***************************************************************************)
Without(d, n) == SelectSeq(d, LAMBDA node : node.n # n)

clickElement(d, n) == { d, Without(d, n) }

(***************************************************************************)
(* State.                                                                  *)
(***************************************************************************)
VARIABLES
    document,     \* the live document
    arguments,    \* the argument list of the current invocation
    selector,     \* let selector
    wtlUid,       \* let wtlUid
    element,      \* let element
    pc,           \* position in the script
    events,       \* what the current invocation did, in order
    document0,    \* the document as the current invocation found it
    prev,         \* the previous completed invocation (<<>> or <<record>>)
    emitted,      \* the console messages emitted so far, all invocations
    calls         \* invocations started

vars == << document, arguments, selector, wtlUid, element, pc, events,
           document0, prev, emitted, calls >>

\* The three console messages of the script.
PrimaryFailedMsg == "click_element: Element not found with selector: "
FallbackAttemptMsg == "click_element: Trying to find element by wtl-uid: "
FallbackFailedMsg == "click_element: Element not found with wtl-uid: "

Event(type, line, msg, el) ==
    [type |-> type, line |-> line, msg |-> msg, el |-> el]

Running == pc \notin { "idle", "done", "error" }

Init ==
    /\ document \in Documents
    /\ arguments = <<>>
    /\ selector = Null
    /\ wtlUid = Null
    /\ element = NoElement
    /\ pc = "idle"
    /\ events = <<>>
    /\ document0 = document
    /\ prev = <<>>
    /\ emitted = {}
    /\ calls = 0

\* The record of an invocation that ends with events evs in state outcome.
Completed(evs, outcome) ==
    [document0 |-> document0, arguments |-> arguments,
     outcome |-> outcome, events |-> evs]

(***************************************************************************)
(* The controller injects the script with an argument list; the script's   *)
(* locals are fresh in every invocation.                                   *)
(***************************************************************************)
Invoke(args) ==
    /\ ~Running
    /\ calls < MaxInvocations
    /\ calls' = calls + 1
    /\ arguments' = args
    /\ selector' = Null
    /\ wtlUid' = Null
    /\ element' = NoElement
    /\ events' = <<>>
    /\ document0' = document
    /\ prev' = IF pc = "idle" THEN <<>> ELSE << Completed(events, pc) >>
    /\ pc' = "L20"
    /\ UNCHANGED << document, emitted >>

\* ReadArguments with wtlUid kept from the previous invocation when no second
\* argument is passed (line 22 missing, wtlUid a global).
ReadArgumentsStale ==
    /\ pc = "L20"
    /\ selector' = arguments[1]
    /\ wtlUid' = IF Len(arguments) > 1 THEN arguments[2]
                 ELSE IF prev # <<>> /\ Len(prev[1].arguments) > 1
                        THEN prev[1].arguments[2] ELSE Null
    /\ pc' = "L27"
    /\ UNCHANGED << document, arguments, element, events, document0, prev,
                    emitted, calls >>

\* Lines 20-25: read the arguments.
ReadArguments ==
    /\ pc = "L20"
    /\ selector' = arguments[1]
    /\ wtlUid' = IF Len(arguments) > 1 THEN arguments[2] ELSE Null
    /\ pc' = "L27"
    /\ UNCHANGED << document, arguments, element, events, document0, prev,
                    emitted, calls >>

\* PrimaryQuery that takes the last node matching the selector (the last of
\* querySelectorAll) instead of the first.
PrimaryQueryLast ==
    /\ pc = "L27"
    /\ LET r == querySelectorLast(document, selector.v)
       IN  /\ events' = Append(events, Event("querySelector", 27, selector.v,
                                             IF r.threw THEN NoElement ELSE r.el))
           /\ IF r.threw
                THEN pc' = "error" /\ element' = element
                ELSE pc' = "L28" /\ element' = r.el
    /\ UNCHANGED << document, arguments, selector, wtlUid, document0, prev,
                    emitted, calls >>

\* PrimaryQuery in a try whose catch goes straight on to the wtl-uid fallback.
PrimaryQueryErrorFallsBack ==
    /\ pc = "L27"
    /\ LET r == querySelector(document, selector.v)
       IN  /\ events' = Append(events, Event("querySelector", 27, selector.v,
                                             IF r.threw THEN NoElement ELSE r.el))
           /\ pc' = IF r.threw THEN "L33" ELSE "L28"
           /\ element' = IF r.threw THEN NoElement ELSE r.el
    /\ UNCHANGED << document, arguments, selector, wtlUid, document0, prev,
                    emitted, calls >>

\* PrimaryQuery with the engine's failure caught and taken as "not found".
PrimaryQueryCaught ==
    /\ pc = "L27"
    /\ LET r == querySelector(document, selector.v)
       IN  /\ events' = Append(events, Event("querySelector", 27, selector.v,
                                             IF r.threw THEN NoElement ELSE r.el))
           /\ pc' = "L28"
           /\ element' = IF r.threw THEN NoElement ELSE r.el
    /\ UNCHANGED << document, arguments, selector, wtlUid, document0, prev,
                    emitted, calls >>

\* Line 27: the primary query; a syntax error leaves the script.
PrimaryQuery ==
    /\ pc = "L27"
    /\ LET r == querySelector(document, selector.v)
       IN  /\ events' = Append(events, Event("querySelector", 27, selector.v,
                                             IF r.threw THEN NoElement ELSE r.el))
           /\ IF r.threw
                THEN pc' = "error" /\ element' = element
                ELSE pc' = "L28" /\ element' = r.el
    /\ UNCHANGED << document, arguments, selector, wtlUid, document0, prev,
                    emitted, calls >>

\* PrimaryClick without the else: after the click the script goes on to line 33.
PrimaryClickFallsThrough ==
    /\ pc = "L28"
    /\ element # NoElement
    /\ events' = Append(events, Event("clickElement", 29, "", element))
    /\ document' \in clickElement(document, element)
    /\ pc' = "L33"
    /\ UNCHANGED << arguments, selector, wtlUid, element, document0, prev,
                    emitted, calls >>

\* PrimaryClick with a console.log of the success.
ClickedMsg == "click_element: Element clicked: "

PrimaryClickLogged ==
    /\ pc = "L28"
    /\ element # NoElement
    /\ events' = events \o << Event("console.log", 29, ClickedMsg, NoElement),
                              Event("clickElement", 29, "", element) >>
    /\ emitted' = emitted \cup { ClickedMsg }
    /\ document' \in clickElement(document, element)
    /\ pc' = "done"
    /\ UNCHANGED << arguments, selector, wtlUid, element, document0, prev, calls >>

\* Lines 28-29: the element was found, click it.
PrimaryClick ==
    /\ pc = "L28"
    /\ element # NoElement
    /\ events' = Append(events, Event("clickElement", 29, "", element))
    /\ document' \in clickElement(document, element)
    /\ pc' = "done"
    /\ UNCHANGED << arguments, selector, wtlUid, element, document0, prev,
                    emitted, calls >>

\* PrimaryFailed that also drops the first node of the document.
PrimaryFailedPruning ==
    /\ pc = "L28"
    /\ element = NoElement
    /\ events' = Append(events, Event("console.error", 31, PrimaryFailedMsg, NoElement))
    /\ emitted' = emitted \cup { PrimaryFailedMsg }
    /\ document' = IF document = <<>> THEN document ELSE Tail(document)
    /\ pc' = "L33"
    /\ UNCHANGED << arguments, selector, wtlUid, element, document0, prev, calls >>

\* Lines 30-31: not found, console.error.
PrimaryFailed ==
    /\ pc = "L28"
    /\ element = NoElement
    /\ events' = Append(events, Event("console.error", 31, PrimaryFailedMsg, NoElement))
    /\ emitted' = emitted \cup { PrimaryFailedMsg }
    /\ pc' = "L33"
    /\ UNCHANGED << document, arguments, selector, wtlUid, element, document0,
                    prev, calls >>

\* NoFallbackReturn without its return: the script goes on to the fallback.
NoFallbackReturnMissing ==
    /\ pc = "L33"
    /\ wtlUid = Null
    /\ events' = Append(events, Event("console.log", 39, FallbackAttemptMsg, NoElement))
    /\ emitted' = emitted \cup { FallbackAttemptMsg }
    /\ pc' = "L40"
    /\ UNCHANGED << document, arguments, selector, wtlUid, element, document0,
                    prev, calls >>

\* Lines 33-35: no wtl-uid, return.
NoFallbackReturn ==
    /\ pc = "L33"
    /\ wtlUid = Null
    /\ pc' = "done"
    /\ UNCHANGED << document, arguments, selector, wtlUid, element, events,
                    document0, prev, emitted, calls >>

\* Line 39: console.log of the fallback attempt.
FallbackAttempt ==
    /\ pc = "L33"
    /\ wtlUid # Null
    /\ events' = Append(events, Event("console.log", 39, FallbackAttemptMsg, NoElement))
    /\ emitted' = emitted \cup { FallbackAttemptMsg }
    /\ pc' = "L40"
    /\ UNCHANGED << document, arguments, selector, wtlUid, element, document0,
                    prev, calls >>

\* FallbackLookup whose result is not assigned to element (a shadowing let).
FallbackLookupShadowed ==
    /\ pc = "L40"
    /\ events' = Append(events, Event("findElementByWtlUid", 40, wtlUid.v,
                                      findElementByWtlUid(document, wtlUid)))
    /\ pc' = "L42"
    /\ UNCHANGED << document, arguments, selector, wtlUid, element, document0,
                    prev, emitted, calls >>

\* Line 40: the lookup by wtl-uid.
FallbackLookup ==
    /\ pc = "L40"
    /\ element' = findElementByWtlUid(document, wtlUid)
    /\ events' = Append(events, Event("findElementByWtlUid", 40, wtlUid.v, element'))
    /\ pc' = "L42"
    /\ UNCHANGED << document, arguments, selector, wtlUid, document0, prev,
                    emitted, calls >>

\* Lines 42-43: found by wtl-uid, click it.
FallbackClick ==
    /\ pc = "L42"
    /\ element # NoElement
    /\ events' = Append(events, Event("clickElement", 43, "", element))
    /\ document' \in clickElement(document, element)
    /\ pc' = "done"
    /\ UNCHANGED << arguments, selector, wtlUid, element, document0, prev,
                    emitted, calls >>

\* FallbackFailed that tries the primary query again after its console.error.
FallbackFailedRetry ==
    /\ pc = "L42"
    /\ element = NoElement
    /\ events' = Append(events, Event("console.error", 45, FallbackFailedMsg, NoElement))
    /\ emitted' = emitted \cup { FallbackFailedMsg }
    /\ pc' = "L27"
    /\ UNCHANGED << document, arguments, selector, wtlUid, element, document0,
                    prev, calls >>

\* FallbackFailed that throws after its console.error.
FallbackFailedThrows ==
    /\ pc = "L42"
    /\ element = NoElement
    /\ events' = Append(events, Event("console.error", 45, FallbackFailedMsg, NoElement))
    /\ emitted' = emitted \cup { FallbackFailedMsg }
    /\ pc' = "error"
    /\ UNCHANGED << document, arguments, selector, wtlUid, element, document0,
                    prev, calls >>

\* Lines 44-46: not found by wtl-uid either, console.error.
FallbackFailed ==
    /\ pc = "L42"
    /\ element = NoElement
    /\ events' = Append(events, Event("console.error", 45, FallbackFailedMsg, NoElement))
    /\ emitted' = emitted \cup { FallbackFailedMsg }
    /\ pc' = "done"
    /\ UNCHANGED << document, arguments, selector, wtlUid, element, document0,
                    prev, calls >>

\* The statements of the script.
Step ==
    \/ ReadArguments
    \/ PrimaryQuery
    \/ PrimaryClick
    \/ PrimaryFailed
    \/ NoFallbackReturn
    \/ FallbackAttempt
    \/ FallbackLookup
    \/ FallbackClick
    \/ FallbackFailed

Next ==
    \/ \E args \in ArgumentLists : Invoke(args)
    \/ Step

Spec == Init /\ [][Next]_vars

\* The script runs to completion once it is invoked.
FairSpec == Spec /\ WF_vars(Step)

(***************************************************************************)
(* What an invocation is seen to do.                                       *)
(***************************************************************************)
IsConsole(e) == e.type \in { "console.error", "console.log" }

\* The events as the sequence of what was done: the message of a console
\* call, the name of any other call.
Trace(evs) ==
    [i \in DOMAIN evs |-> IF IsConsole(evs[i]) THEN evs[i].msg ELSE evs[i].type]

IsPrefix(s, t) == Len(s) <= Len(t) /\ \A i \in DOMAIN s : s[i] = t[i]

Invoked == calls > 0
Ended == pc \in { "done", "error" }

\* The indexes of the nodes the primary locator matches in the document the
\* invocation found.
PrimaryMatches ==
    { i \in DOMAIN document0 : Matches(document0[i], arguments[1].v) }

\* The primary locator is a selector and matches no node.
PrimaryNoMatch ==
    Invoked /\ WellFormed(arguments[1].v) /\ PrimaryMatches = {}

SecondarySupplied == Invoked /\ Len(arguments) > 1

\* The indexes of the nodes that carry the second argument as their wtl-uid.
Tagged ==
    { i \in DOMAIN document0 :
        /\ document0[i].hasUid
        /\ arguments[2] = Str(document0[i].uid) }

PrimaryHitTrace == << "querySelector", "clickElement" >>
NoFallbackTrace == << "querySelector", PrimaryFailedMsg >>
FallbackHitTrace ==
    << "querySelector", PrimaryFailedMsg, FallbackAttemptMsg,
       "findElementByWtlUid", "clickElement" >>
FallbackMissTrace ==
    << "querySelector", PrimaryFailedMsg, FallbackAttemptMsg,
       "findElementByWtlUid", FallbackFailedMsg >>

\* The invocation does the calls of t in order, and all of them when it ends,
\* which it does by returning.
Does(t) ==
    /\ IsPrefix(Trace(events), t)
    /\ pc # "error"
    /\ pc = "done" => Trace(events) = t

(***************************************************************************)
(* C1: when the primary locator matches a node, the invocation clicks the  *)
(* first matching node, writes nothing to the console and never looks up   *)
(* a wtl-uid, with or without a second argument.                           *)
(***************************************************************************)
C1_PrimarySuccess ==
    (Invoked /\ PrimaryMatches # {}) =>
        /\ Does(PrimaryHitTrace)
        /\ pc = "done" =>
             \E i \in PrimaryMatches :
                /\ events[2].el = document0[i].n
                /\ \A j \in PrimaryMatches : i <= j

C1_Witness ==
    /\ pc = "done"
    /\ Cardinality(PrimaryMatches) = 2
    /\ SecondarySupplied
    /\ Tagged # {}
    /\ Trace(events) = PrimaryHitTrace

(***************************************************************************)
(* C2: when the primary locator matches nothing and the second argument is *)
(* the wtl-uid of a node, the invocation writes the primary-failed and the *)
(* fallback-attempted messages, in this order, then looks the wtl-uid up   *)
(* and clicks the node the lookup returned; nothing else is written.       *)
(***************************************************************************)
C2_FallbackSuccess ==
    (PrimaryNoMatch /\ SecondarySupplied /\ Tagged # {}) =>
        /\ Does(FallbackHitTrace)
        /\ pc = "done" =>
             /\ events[4].el # NoElement
             /\ events[5].el = events[4].el
             /\ \E i \in Tagged : document0[i].n = events[5].el

C2_Witness ==
    /\ pc = "done"
    /\ PrimaryNoMatch /\ SecondarySupplied /\ Tagged # {}
    /\ Trace(events) = FallbackHitTrace

(***************************************************************************)
(* C3: when the primary locator matches nothing and no second argument was *)
(* passed, the invocation writes the primary-failed message only, looks up *)
(* no wtl-uid and clicks nothing.                                          *)
(***************************************************************************)
C3_NoFallback ==
    (PrimaryNoMatch /\ ~SecondarySupplied) => Does(NoFallbackTrace)

C3_Witness ==
    /\ pc = "done"
    /\ PrimaryNoMatch /\ ~SecondarySupplied
    /\ Trace(events) = NoFallbackTrace
    /\ \E i \in DOMAIN document : document[i].hasUid

(***************************************************************************)
(* C4: when the primary locator matches nothing and a second argument was  *)
(* passed that is the wtl-uid of no node, the invocation writes the        *)
(* primary-failed, fallback-attempted and fallback-failed messages, in     *)
(* this order, and clicks nothing.                                         *)
(***************************************************************************)
C4_FallbackFailure ==
    (PrimaryNoMatch /\ SecondarySupplied /\ Tagged = {}) =>
        Does(FallbackMissTrace)

(***************************************************************************)
(* C5: after a failed primary lookup the fallback (the fallback-attempted  *)
(* message and the wtl-uid lookup) is taken if and only if a second        *)
(* argument was passed, whatever its value.                                *)
(***************************************************************************)
FallbackTaken ==
    \E i \in DOMAIN events : events[i].type = "findElementByWtlUid"
                               \/ events[i].msg = FallbackAttemptMsg

C5_FallbackIffSupplied ==
    (PrimaryNoMatch /\ pc = "done") => (FallbackTaken <=> SecondarySupplied)

(***************************************************************************)
(* C6: an invocation whose primary locator is a selector always ends, and  *)
(* ends by returning: finding nothing, by the selector or by the wtl-uid,  *)
(* is written to the console and never thrown.                             *)
(***************************************************************************)
C6_ReturnsNormally ==
    /\ [](Invoked /\ WellFormed(arguments[1].v) => pc # "error")
    /\ (pc = "L20" /\ WellFormed(arguments[1].v)) ~> (pc = "done")

C6_Witness ==
    /\ pc = "done"
    /\ WellFormed(arguments[1].v)
    /\ Trace(events) = FallbackMissTrace

(***************************************************************************)
(* C7: when the primary locator is no selector, the failure of the query   *)
(* leaves the script as an error: the invocation neither goes on to the    *)
(* not-found branch nor returns.                                           *)
(***************************************************************************)
C7_MalformedPropagates ==
    (Invoked /\ ~WellFormed(arguments[1].v)) =>
        /\ pc \in { "L20", "L27", "error" }
        /\ IsPrefix(Trace(events), << "querySelector" >>)
        /\ pc = "error" => Trace(events) = << "querySelector" >>

C7_Witness ==
    /\ pc = "error"
    /\ ~WellFormed(arguments[1].v)
    /\ SecondarySupplied
    /\ Tagged # {}

(***************************************************************************)
(* C8: when several nodes match the primary locator the click goes to the  *)
(* first of them in document order, and an invocation with the arguments   *)
(* of the previous one, on the document the previous one found, does what  *)
(* the previous one did.                                                   *)
(***************************************************************************)
SameAsPrevious ==
    /\ prev # <<>>
    /\ prev[1].arguments = arguments
    /\ prev[1].document0 = document0

C8_FirstMatchDeterminism ==
    Ended =>
        /\ \A k \in DOMAIN events :
              events[k].line = 29 =>
                  \E i \in PrimaryMatches :
                     /\ events[k].el = document0[i].n
                     /\ \A j \in PrimaryMatches : i <= j
        /\ SameAsPrevious =>
              /\ prev[1].events = events
              /\ prev[1].outcome = pc

C8_Witness ==
    /\ pc = "done"
    /\ SameAsPrevious
    /\ Cardinality(PrimaryMatches) = 2
    /\ Trace(events) = PrimaryHitTrace

(***************************************************************************)
(* C9: only the dispatch of a click changes the document: no query and no  *)
(* console call does, and an invocation that clicks nothing leaves the     *)
(* document as it found it.                                                *)
(***************************************************************************)
ClickDispatched ==
    /\ Len(events') = Len(events) + 1
    /\ events'[Len(events')].type = "clickElement"

NoClick == \A i \in DOMAIN events : events[i].type # "clickElement"

C9_OnlyClickMutates ==
    /\ [][document' # document => ClickDispatched]_vars
    /\ [](NoClick => document = document0)

C9_Witness ==
    /\ pc = "done"
    /\ NoClick
    /\ Trace(events) = FallbackMissTrace
    /\ document # <<>>

(***************************************************************************)
(* C10: the script writes exactly three different messages to the console: *)
(* never more than three over any number of invocations, and all three in  *)
(* an invocation in which every console call of the script has run.        *)
(***************************************************************************)
\* The lines of the script's console calls.
ConsoleSites == { 31, 39, 45 }

AllConsoleSitesRan ==
    ConsoleSites \subseteq
        { events[i].line : i \in { j \in DOMAIN events : IsConsole(events[j]) } }

C10_ThreeDiagnostics ==
    /\ Cardinality(emitted) <= 3
    /\ AllConsoleSitesRan => Cardinality(emitted) = 3

C10_Witness ==
    /\ AllConsoleSitesRan
    /\ Cardinality(emitted) = 3

\* C10 as claimed: four different messages once every console call has run.
C10_FourDiagnostics ==
    AllConsoleSitesRan => Cardinality(emitted) = 4

(***************************************************************************)
(* C11: one attempt per tier and no retry: an invocation makes the primary *)
(* query exactly once and the wtl-uid lookup at most once, and the lookup  *)
(* comes only after the primary query has answered null and the            *)
(* primary-failed and fallback-attempted messages were written, in this    *)
(* order.                                                                  *)
(***************************************************************************)
Calls(type) == { i \in DOMAIN events : events[i].type = type }

Wrote(msg) == { i \in DOMAIN events : IsConsole(events[i]) /\ events[i].msg = msg }

C11_OneAttemptPerTier ==
    /\ Cardinality(Calls("querySelector")) <= 1
    /\ (Invoked /\ pc \notin { "L20", "L27" }) =>
            Cardinality(Calls("querySelector")) = 1
    /\ Cardinality(Calls("findElementByWtlUid")) <= 1
    /\ \A k \in Calls("findElementByWtlUid") :
          \E q \in Calls("querySelector"), f \in Wrote(PrimaryFailedMsg),
             a \in Wrote(FallbackAttemptMsg) :
                /\ q < f /\ f < a /\ a < k
                /\ events[q].el = NoElement
                /\ WellFormed(arguments[1].v)

C11_Witness ==
    /\ Ended
    /\ Cardinality(Calls("querySelector")) = 1
    /\ Cardinality(Calls("findElementByWtlUid")) = 1
    /\ Trace(events) = FallbackMissTrace

(***************************************************************************)
(* C12: an invocation dispatches at most one click, on the non-null result *)
(* of the latest lookup of that invocation, and the click is its last      *)
(* event: no lookup, console call or click follows it.  The fallback-      *)
(* failed message and a click never occur in the same invocation.          *)
(***************************************************************************)
Lookups == Calls("querySelector") \cup Calls("findElementByWtlUid")

C12_ClickIsLast ==
    /\ Cardinality(Calls("clickElement")) <= 1
    /\ \A k \in Calls("clickElement") :
          /\ k = Len(events)
          /\ pc = "done"
          /\ events[k].el # NoElement
          /\ \E l \in Lookups :
                /\ l < k
                /\ \A m \in Lookups : m <= l
                /\ events[l].el = events[k].el
          /\ \E i \in DOMAIN document0 : document0[i].n = events[k].el
    /\ Wrote(FallbackFailedMsg) # {} => Calls("clickElement") = {}

C12_Witness ==
    /\ pc = "done"
    /\ Cardinality(Calls("clickElement")) = 1
    /\ Cardinality(Lookups) = 2
    /\ events[Len(events)].type = "clickElement"

(***************************************************************************)
(* C13: when the primary query fails with the engine's error, the          *)
(* invocation writes nothing to the console, clicks nothing and never      *)
(* looks the wtl-uid up, even when a second argument was passed that is    *)
(* the wtl-uid of a node.                                                  *)
(***************************************************************************)
C13_ErrorSkipsFallback ==
    (Invoked /\ ~WellFormed(arguments[1].v)) =>
        /\ \A i \in DOMAIN events : ~IsConsole(events[i])
        /\ Calls("clickElement") = {}
        /\ Calls("findElementByWtlUid") = {}
        /\ document = document0
        /\ pc # "done"

C13_Witness ==
    /\ pc = "error"
    /\ Len(events) = 1
    /\ events[1].type = "querySelector"
    /\ SecondarySupplied
    /\ Tagged # {}
    /\ findElementByWtlUid(document, arguments[2]) # NoElement

=============================================================================
